---------------------------- MODULE Spec2Model ----------------------------
(***************************************************************************)
(* Model of src/core/fileSystemWatcher.ts: FileSystemWatcherManager (one   *)
(* watchman client per workspace root, creation dedup, retroactive         *)
(* attachment of watchers, disposal) and FileSystemWatcher (the onChange   *)
(* callback that classifies a batch of file records and infers renames,   *)
(* four event emitters, disposal).                                         *)
(*                                                                         *)
(* JavaScript is single threaded: every action below is one synchronous    *)
(* run of a method or of a promise continuation.  The two suspension       *)
(* points are the await of Watchman.createClient (line 68) and the promise *)
(* of client.subscribe (line 182); each has a resolve action of its own.   *)
(***************************************************************************)
EXTENDS Naturals, Integers, Sequences, FiniteSets, TLC

(***************************************************************************)
(* Bounds and domains                                                      *)
(***************************************************************************)
\* Longest batch of file records handed to onChange.
MaxLen == 4
\* Watchman clients that may ever be requested for one root.
MaxCreate == 2

Roots == {"r1", "r2"}
WatcherIds == {"w1", "w2"}
\* A client is identified by its root and the ordinal of the external
\* Watchman.createClient call that produced it.
ClientIds == Roots \X (1..MaxCreate)

NoEntry == <<"noentry", 0>>     \* clientsMap.has(root) is false
Null == <<"null", 0>>           \* clientsMap holds null for the root
NoUri == <<"none", "none">>     \* newUri of an event that is no rename
\* A watcher object that was not constructed yet.
NotCreated ==
    [globPattern |-> "notcreated", ignoreCreateEvents |-> FALSE,
     ignoreChangeEvents |-> FALSE, ignoreDeleteEvents |-> FALSE]
\* No onChange callback ran yet.
NoDelivery ==
    [watcher |-> "none", client |-> <<"none", 0>>, files |-> <<>>, fired |-> <<>>,
     heard |-> {}, disposed |-> FALSE]
\* waitClient was not called yet.
NoWaiter == [root |-> "none", state |-> "none", listening |-> FALSE, how |-> "none"]

Streams == {"create", "change", "delete", "rename"}

VARIABLES
    watchmanPath,     \* "null" or "watchman": constructor argument
    channel,          \* "undefined" until attach() stores the output channel
    folders,          \* workspaceFolder.workspaceFolders, as roots
    folderListener,   \* the onDidChangeWorkspaceFolders handler is in manager.disposables
    creatingRoots,    \* manager.creatingRoots
    clientsMap,       \* manager.clientsMap: root -> NoEntry | Null | client id
    managerDisposed,  \* manager._disposed
    clientState,      \* per client id: the promise of createClient and the Watchman object
    waiter,           \* the promise returned by one waitClient(root) call
    watcherCfg,       \* per watcher: NotCreated or its constructor arguments
    watcherDisposed,  \* watcher._disposed
    watchers,         \* FileSystemWatcherManager.watchers (static set)
    subs,             \* per (watcher, client): the promise of client.subscribe and its disposable
    listeners,        \* per watcher: callbacks held by its four emitters
    delivery,         \* the last run of an onChange callback and what it fired
    coalesced,        \* history: roots for which createClient returned at line 65
    readyFired,       \* history: roots for which _onDidCreateClient.fire(root) ran
    lateResolved,     \* history: clients whose creation resolved after manager.dispose()
    lateWatchers      \* history: watchers createFileSystemWatcher attached to a stored client

vars == <<watchmanPath, channel, folders, folderListener, creatingRoots, clientsMap,
          managerDisposed, clientState, waiter, watcherCfg, watcherDisposed, watchers,
          subs, listeners, delivery, coalesced, readyFired, lateResolved, lateWatchers>>

managerVars == <<watchmanPath, channel, folderListener, creatingRoots, clientsMap,
                 managerDisposed, clientState, waiter, coalesced, readyFired, lateResolved>>

(***************************************************************************)
(* File records and events                                                 *)
(***************************************************************************)
\* One entry of FileChange.files, as onChange reads it.
Rec(n, t, e, nw, s, m) ==
    [name |-> n, type |-> t, exists |-> e, new |-> nw, size |-> s, mtime_ms |-> m]

\* The records batches are drawn from.  A notification lists a file once, so
\* every record has a name of its own.
Pool ==
    { Rec("a.txt", "f", FALSE, FALSE, 1, 1),    \* vanished, fingerprint (1,1)
      Rec("b.txt", "f", FALSE, FALSE, 2, 2),    \* vanished, fingerprint (2,2)
      Rec(".f.txt", "f", FALSE, FALSE, 1, 1),   \* vanished dotfile, fingerprint (1,1)
      Rec("c.txt", "f", TRUE, TRUE, 1, 1),      \* created, fingerprint (1,1)
      Rec("d.txt", "f", TRUE, TRUE, 2, 2),      \* created, fingerprint (2,2)
      Rec("e.txt", "f", TRUE, TRUE, 1, 2),      \* created, size of a.txt, other mtime
      Rec("g.txt", "f", TRUE, FALSE, 1, 1),     \* changed, fingerprint (1,1)
      Rec("h.md", "f", FALSE, FALSE, 1, 1),     \* vanished, name outside the glob
      Rec("i.txt", "d", TRUE, TRUE, 1, 1) }     \* directory whose name is in the glob

Globs == {"**/*.txt"}

\* minimatch(name, globPattern, { dot: true }): the external glob primitive,
\* tabulated for the names of Pool.
minimatch(name, globPattern) ==
    /\ globPattern = "**/*.txt"
    /\ name \in {"a.txt", "b.txt", ".f.txt", "c.txt", "d.txt", "e.txt", "g.txt", "i.txt"}

\* URI.file(path.join(root, name))
UriFile(root, name) == <<root, name>>

Event(k, u, nu, line) == [kind |-> k, uri |-> u, newUri |-> nu, site |-> line]

Config(g, ic, ich, id) ==
    [globPattern |-> g, ignoreCreateEvents |-> ic,
     ignoreChangeEvents |-> ich, ignoreDeleteEvents |-> id]

AllConfigs ==
    { Config(g, ic, ich, id) : g \in Globs, ic \in BOOLEAN, ich \in BOOLEAN, id \in BOOLEAN }


(***************************************************************************)
(* FileSystemWatcher.listen: the onChange callback (lines 140-181)         *)
(***************************************************************************)
\* KeepFile without the type test of line 142.
KeepFileAnyType(f, globPattern) == minimatch(f.name, globPattern)

\* line 142: files.filter(f => f.type == 'f' && minimatch(f.name, globPattern, {dot: true}))
KeepFile(f, globPattern) == f.type = "f" /\ minimatch(f.name, globPattern)

FilterFiles(files, globPattern) == SelectSeq(files, LAMBDA f : KeepFile(f, globPattern))

\* FileEvent with the delete branch reading ignoreCreateEvents and the
\* create branch reading ignoreDeleteEvents.
FileEventFlagsSwapped(file, root, cfg) ==
    IF ~file.exists
    THEN IF ~cfg.ignoreCreateEvents
         THEN <<Event("delete", UriFile(root, file.name), NoUri, 146)>>
         ELSE <<>>
    ELSE IF file.new = TRUE
         THEN IF ~cfg.ignoreDeleteEvents
              THEN <<Event("create", UriFile(root, file.name), NoUri, 149)>>
              ELSE <<>>
         ELSE IF ~cfg.ignoreChangeEvents
              THEN <<Event("change", UriFile(root, file.name), NoUri, 151)>>
              ELSE <<>>

\* FileEvent without the test of file.new at line 148: every present record
\* is taken as changed.
FileEventNewAsChange(file, root, cfg) ==
    IF ~file.exists
    THEN IF ~cfg.ignoreDeleteEvents
         THEN <<Event("delete", UriFile(root, file.name), NoUri, 146)>>
         ELSE <<>>
    ELSE IF ~cfg.ignoreChangeEvents
         THEN <<Event("change", UriFile(root, file.name), NoUri, 151)>>
         ELSE <<>>

\* lines 144-153: the event fired for one filtered record, as a sequence of
\* zero or one events.
FileEvent(file, root, cfg) ==
    IF ~file.exists
    THEN IF ~cfg.ignoreDeleteEvents
         THEN <<Event("delete", UriFile(root, file.name), NoUri, 146)>>
         ELSE <<>>
    ELSE IF file.new = TRUE
         THEN IF ~cfg.ignoreCreateEvents
              THEN <<Event("create", UriFile(root, file.name), NoUri, 149)>>
              ELSE <<>>
         ELSE IF ~cfg.ignoreChangeEvents
              THEN <<Event("change", UriFile(root, file.name), NoUri, 151)>>
              ELSE <<>>

\* PerFileEvents walking the filtered records from the last to the first.
RECURSIVE PerFileEventsReversed(_, _, _)
PerFileEventsReversed(files, root, cfg) ==
    IF files = <<>>
    THEN <<>>
    ELSE PerFileEventsReversed(Tail(files), root, cfg) \o FileEvent(Head(files), root, cfg)

\* lines 143-154: the loop over the filtered records, in order.
RECURSIVE PerFileEvents(_, _, _)
PerFileEvents(files, root, cfg) ==
    IF files = <<>>
    THEN <<>>
    ELSE FileEvent(Head(files), root, cfg) \o PerFileEvents(Tail(files), root, cfg)

\* FileRename comparing mtime_ms at line 159 instead of size.
FileRenameByMtime(files, root) ==
    IF Len(files) = 2 /\ ~files[1].exists /\ files[2].exists
    THEN IF files[1].mtime_ms = files[2].mtime_ms
         THEN <<Event("rename", UriFile(root, files[1].name),
                      UriFile(root, files[2].name), 160)>>
         ELSE <<>>
    ELSE <<>>

\* lines 156-165: "file rename".
FileRename(files, root) ==
    IF Len(files) = 2 /\ ~files[1].exists /\ files[2].exists
    THEN IF files[1].size = files[2].size
         THEN <<Event("rename", UriFile(root, files[1].name),
                      UriFile(root, files[2].name), 160)>>
         ELSE <<>>
    ELSE <<>>

\* splitArray(files, o => o.exists === false) of util/array: the records that
\* satisfy the test and those that do not, each in the order of files.
splitArray(files) ==
    <<SelectSeq(files, LAMBDA o : o.exists = FALSE),
      SelectSeq(files, LAMBDA o : ~(o.exists = FALSE))>>

\* SameFile without the mtime_ms comparison of line 171.
SameFileBySize(o, oldFile) == o.size = oldFile.size

\* line 171: the test handed to newFiles.find.
SameFile(o, oldFile) == o.size = oldFile.size /\ o.mtime_ms = oldFile.mtime_ms

\* Array.prototype.find: the index of the first element of newFiles passing
\* the test, 0 when none does.
RECURSIVE FindFrom(_, _, _)
FindFrom(newFiles, oldFile, i) ==
    IF i > Len(newFiles) THEN 0
    ELSE IF SameFile(newFiles[i], oldFile) THEN i
    ELSE FindFrom(newFiles, oldFile, i + 1)

\* lines 170-178: the loop over oldFiles.
RECURSIVE RenameLoop(_, _, _)
RenameLoop(oldFiles, newFiles, root) ==
    IF oldFiles = <<>>
    THEN <<>>
    ELSE LET oldFile == Head(oldFiles)
             j == FindFrom(newFiles, oldFile, 1)
             rest == RenameLoop(Tail(oldFiles), newFiles, root)
         IN  IF j # 0
             THEN <<Event("rename", UriFile(root, oldFile.name),
                          UriFile(root, newFiles[j].name), 173)>> \o rest
             ELSE rest

\* FolderRename with files.length > 2 at line 168.
FolderRenameOverTwo(files, root) ==
    IF Len(files) > 2
    THEN LET parts == splitArray(files)
         IN  IF Len(parts[1]) = Len(parts[2])
             THEN RenameLoop(parts[1], parts[2], root)
             ELSE <<>>
    ELSE <<>>

\* FolderRename without the length comparison of line 169.
FolderRenameAnyCount(files, root) ==
    IF Len(files) >= 2
    THEN LET parts == splitArray(files)
         IN  RenameLoop(parts[1], parts[2], root)
    ELSE <<>>

\* lines 167-180: "detect folder rename".
FolderRename(files, root) ==
    IF Len(files) >= 2
    THEN LET parts == splitArray(files)
         IN  IF Len(parts[1]) = Len(parts[2])
             THEN RenameLoop(parts[1], parts[2], root)
             ELSE <<>>
    ELSE <<>>

\* lines 140-181: every fire call of one run of onChange, in order.
onChange(files, root, cfg) ==
    LET kept == FilterFiles(files, cfg.globPattern)
    IN  PerFileEvents(kept, root, cfg) \o FileRename(kept, root) \o FolderRename(kept, root)


(***************************************************************************)
(* Helpers over the manager's state                                        *)
(***************************************************************************)
HasEntry(root) == clientsMap[root] # NoEntry

\* The Watchman objects stored in clientsMap (the non-null values).
StoredClients == { c \in ClientIds : clientsMap[c[1]] = c }

\* The external Watchman.createClient calls made so far for a root.
CreateCalls(root) == { c \in ClientIds : c[1] = root /\ clientState[c] # "unused" }

InFlight(root) == { c \in ClientIds : c[1] = root /\ clientState[c] = "creating" }

\* The client the next Watchman.createClient call for root returns.
NextClient(root) == <<root, Cardinality(CreateCalls(root)) + 1>>

(***************************************************************************)
(* FileSystemWatcherManager.createClient, up to its await (lines 63-68)    *)
(***************************************************************************)
\* ShouldCreate without the creatingRoots test of line 65.
ShouldCreateIgnoringPending(root) ==
    /\ watchmanPath # "null"
    /\ ~HasEntry(root)

\* lines 64-65: whether the call goes on to request a client.
ShouldCreate(root) ==
    /\ watchmanPath # "null"
    /\ ~(root \in creatingRoots \/ HasEntry(root))

\* createClient(root) for every root of a forEach loop, each run up to its
\* await.  The runs are independent: each reads and writes its own root.
Starts(rootSet) == { r \in rootSet : ShouldCreate(r) }

\* lines 67-68: the client states once every started call awaits.
Requested(rootSet) ==
    [c \in ClientIds |->
        IF c[1] \in Starts(rootSet) /\ c = NextClient(c[1])
        THEN "creating" ELSE clientState[c]]

CreateClients(rootSet) ==
    /\ \A r \in Starts(rootSet) : NextClient(r) \in ClientIds
    /\ creatingRoots' = creatingRoots \union Starts(rootSet)
    /\ coalesced' = coalesced \union
                      { r \in rootSet : watchmanPath # "null" /\ ~ShouldCreate(r) }

(***************************************************************************)
(* FileSystemWatcher.listen, up to the promise of subscribe (lines 135-182)*)
(***************************************************************************)
\* listen(client) called on every watcher of ws for every client of cs.
Listen(ws, cs) ==
    subs' = [p \in WatcherIds \X ClientIds |->
               IF p[1] \in ws /\ p[2] \in cs THEN "pending" ELSE subs[p]]

(***************************************************************************)
(* FileSystemWatcherManager                                                *)
(***************************************************************************)
\* attach(channel), lines 32-49.  The owner of the manager calls it once.
Attach ==
    /\ channel = "undefined"
    /\ channel' = "channel"
    /\ CreateClients(folders)
    /\ clientState' = Requested(folders)
    /\ folderListener' = TRUE
    /\ UNCHANGED <<watchmanPath, folders, clientsMap, managerDisposed, waiter, watcherCfg,
                   watcherDisposed, watchers, subs, listeners, delivery, readyFired,
                   lateResolved, lateWatchers>>

\* lines 43-47: the clients disposed for the removed folders.
RemovedClients(removed) == { c \in StoredClients : c[1] \in removed }

\* The workspace folders change; the handler of lines 38-48 runs when it is
\* registered.
ChangeWorkspaceFolders(added, removed) ==
    /\ added \union removed # {}
    /\ added \subseteq Roots \ folders
    /\ removed \subseteq folders
    /\ folders' = (folders \union added) \ removed
    /\ IF folderListener
       THEN /\ CreateClients(added)
            /\ clientState' = [c \in ClientIds |->
                                  IF c \in RemovedClients(removed)
                                  THEN "disposed" ELSE Requested(added)[c]]
       ELSE UNCHANGED <<creatingRoots, clientState, coalesced>>
    /\ UNCHANGED <<watchmanPath, channel, folderListener, clientsMap, managerDisposed, waiter,
                   watcherCfg, watcherDisposed, watchers, subs, listeners, delivery,
                   readyFired, lateResolved, lateWatchers>>

\* waitClient(root), lines 51-61.  One call is modelled; its promise is
\* resolved at once, or a listener on onDidCreateClient is registered.
WaitClient(root) ==
    /\ waiter = NoWaiter
    /\ waiter' = IF HasEntry(root)
                 THEN [root |-> root, state |-> "resolved", listening |-> FALSE,
                       how |-> "entry"]
                 ELSE [root |-> root, state |-> "pending", listening |-> TRUE,
                       how |-> "none"]
    /\ UNCHANGED <<watchmanPath, channel, folders, folderListener, creatingRoots, clientsMap,
                   managerDisposed, clientState, watcherCfg, watcherDisposed, watchers,
                   subs, listeners, delivery, coalesced, readyFired, lateResolved, lateWatchers>>

\* IsAwaited without the comparison of line 55.
IsAwaitedAnyRoot(r, root) == TRUE

\* line 55: the test of the listener waitClient registers.
IsAwaited(r, root) == r = root

\* line 80: _onDidCreateClient.fire(root) as the waiter's listener sees it.
FireCreated(root) ==
    IF waiter # NoWaiter /\ waiter.listening /\ IsAwaited(root, waiter.root)
    THEN [root |-> waiter.root, state |-> "resolved", listening |-> FALSE,
          how |-> root]
    ELSE waiter

\* Discard without the _disposed test of line 70.
DiscardNever == FALSE

\* line 70: the result of a creation is dropped when the manager is disposed.
Discard == managerDisposed

\* line 76: the watchers a newly stored client is handed to.
ListenTargets == watchers

\* The await of line 68 throws: the catch block of lines 81-84 logs, and
\* line 69 is not reached.
RejectCreate(c) ==
    /\ clientState[c] = "creating"
    /\ clientState' = [clientState EXCEPT ![c] = "failed"]
    /\ UNCHANGED <<watchmanPath, channel, folders, folderListener, creatingRoots, clientsMap,
                   managerDisposed, waiter, watcherCfg, watcherDisposed, watchers, subs,
                   listeners, delivery, coalesced, readyFired, lateResolved, lateWatchers>>

\* The await of line 68 returns null (clientsMap is a Map<string, Watchman | null>).
\* When the manager is disposed, client.dispose() of line 71 throws and the
\* catch block logs.
ResolveCreateNull(c) ==
    /\ clientState[c] = "creating"
    /\ clientState' = [clientState EXCEPT ![c] = "null"]
    /\ creatingRoots' = creatingRoots \ {c[1]}
    /\ IF Discard
       THEN UNCHANGED <<clientsMap, readyFired, waiter>>
       ELSE /\ clientsMap' = [clientsMap EXCEPT ![c[1]] = Null]
            /\ readyFired' = readyFired \union {c[1]}
            /\ waiter' = FireCreated(c[1])
    /\ UNCHANGED <<watchmanPath, channel, folders, folderListener, managerDisposed,
                   watcherCfg, watcherDisposed, watchers, subs, listeners, delivery,
                   coalesced, lateResolved, lateWatchers>>

\* The await of line 68 returns a client: lines 69-80.
ResolveCreate(c) ==
    /\ clientState[c] = "creating"
    /\ creatingRoots' = creatingRoots \ {c[1]}
    /\ lateResolved' = IF managerDisposed THEN lateResolved \union {c} ELSE lateResolved
    /\ IF Discard
       THEN /\ clientState' = [clientState EXCEPT ![c] = "disposed"]
            /\ UNCHANGED <<clientsMap, readyFired, waiter, subs>>
       ELSE /\ clientState' = [clientState EXCEPT ![c] = "live"]
            /\ clientsMap' = [clientsMap EXCEPT ![c[1]] = c]
            /\ Listen(ListenTargets, {c})
            /\ readyFired' = readyFired \union {c[1]}
            /\ waiter' = FireCreated(c[1])
    /\ UNCHANGED <<watchmanPath, channel, folders, folderListener, managerDisposed,
                   watcherCfg, watcherDisposed, watchers, listeners, delivery, coalesced,
                   lateWatchers>>

\* AttachTargets without the loop of lines 93-95.
AttachTargetsNone == {}

\* lines 93-95: the clients a new watcher is handed.
AttachTargets == StoredClients

\* createFileSystemWatcher(globPattern, ...), lines 87-98.
CreateFileSystemWatcher(w, cfg) ==
    /\ watcherCfg[w] = NotCreated
    /\ watcherCfg' = [watcherCfg EXCEPT ![w] = cfg]
    /\ Listen({w}, AttachTargets)
    /\ lateWatchers' = IF AttachTargets # {} THEN lateWatchers \union {w} ELSE lateWatchers
    /\ watchers' = watchers \union {w}
    /\ UNCHANGED <<watchmanPath, channel, folders, folderListener, creatingRoots, clientsMap,
                   managerDisposed, clientState, waiter, watcherDisposed, listeners,
                   delivery, coalesced, readyFired, lateResolved>>

\* dispose(), lines 100-108.  _onDidCreateClient.dispose() drops the
\* listeners of the emitter; disposeAll empties manager.disposables.
DisposeManager ==
    /\ managerDisposed' = TRUE
    /\ creatingRoots' = {}
    /\ waiter' = IF waiter = NoWaiter THEN waiter ELSE [waiter EXCEPT !.listening = FALSE]
    /\ clientState' = [c \in ClientIds |->
                          IF c \in StoredClients THEN "disposed" ELSE clientState[c]]
    /\ folderListener' = FALSE
    /\ UNCHANGED <<watchmanPath, channel, folders, clientsMap, watcherCfg, watcherDisposed,
                   watchers, subs, listeners, delivery, coalesced, readyFired,
                   lateResolved, lateWatchers>>

(***************************************************************************)
(* FileSystemWatcher                                                       *)
(***************************************************************************)
\* DropSubscription without the test of _disposed at line 184.
DropSubscriptionNever(w) == FALSE

\* line 184: the test made when the promise of subscribe resolves.
DropSubscription(w) == watcherDisposed[w]

\* lines 182-186: client.subscribe resolves with a disposable, which is
\* disposed at once ("dropped") or pushed on this.disposables ("held").
ResolveSubscribe(w, c) ==
    /\ subs[<<w, c>>] = "pending"
    /\ subs' = [subs EXCEPT ![<<w, c>>] = IF DropSubscription(w) THEN "dropped" ELSE "held"]
    /\ UNCHANGED <<managerVars, folders, watcherCfg, watcherDisposed, watchers, listeners,
                   delivery, lateWatchers>>

\* line 186: client.subscribe rejects and logError reports it.
RejectSubscribe(w, c) ==
    /\ subs[<<w, c>>] = "pending"
    /\ subs' = [subs EXCEPT ![<<w, c>>] = "failed"]
    /\ UNCHANGED <<managerVars, folders, watcherCfg, watcherDisposed, watchers, listeners,
                   delivery, lateWatchers>>

\* disposables as one array shared by all watchers.
disposablesShared(w) == { p \in WatcherIds \X ClientIds : subs[p] = "held" }

\* this.disposables (line 118): the subscriptions pushed at line 185 by the
\* subscribe calls of this watcher, and not yet disposed.
disposables(w) == { p \in WatcherIds \X ClientIds : p[1] = w /\ subs[p] = "held" }

\* lines 192-194: the emitters dispose() disposes.
DisposedStreams == {"rename", "create", "change"}

\* dispose(), lines 189-196.  Emitter.dispose() drops the callbacks of the
\* emitter; disposeAll disposes and removes every held subscription.
DisposeWatcher(w) ==
    /\ watcherCfg[w] # NotCreated
    /\ watcherDisposed' = [watcherDisposed EXCEPT ![w] = TRUE]
    /\ watchers' = watchers \ {w}
    /\ listeners' = [listeners EXCEPT
                       ![w] = { l \in listeners[w] : l[1] \notin DisposedStreams }]
    /\ subs' = [p \in WatcherIds \X ClientIds |->
                  IF p \in disposables(w) THEN "disposed" ELSE subs[p]]
    /\ UNCHANGED <<managerVars, folders, watcherCfg, delivery, lateWatchers>>

\* A consumer registers a callback on each of onDidCreate, onDidChange,
\* onDidDelete and onDidRename (lines 122-125).  The callback is tagged with
\* whether the watcher was disposed when it was registered.
AddListeners(w) ==
    LET tag == IF watcherDisposed[w] THEN "after" ELSE "before"
    IN  /\ watcherCfg[w] # NotCreated
        /\ <<"delete", tag>> \notin listeners[w]
        /\ listeners' = [listeners EXCEPT ![w] = listeners[w] \union (Streams \X {tag})]
        /\ UNCHANGED <<managerVars, folders, watcherCfg, watcherDisposed, watchers, subs,
                       delivery, lateWatchers>>

\* The client runs the onChange callback of listen(w, c) with a batch.  The
\* callback is a closure: it runs whatever became of the subscription.
Deliver(w, c, files) ==
    /\ subs[<<w, c>>] \in {"held", "disposed", "dropped"}
    /\ delivery' = [watcher |-> w, client |-> c, files |-> files,
                    fired |-> onChange(files, c[1], watcherCfg[w]),
                    heard |-> listeners[w],
                    disposed |-> watcherDisposed[w]]
    /\ UNCHANGED <<managerVars, folders, watcherCfg, watcherDisposed, watchers, subs,
                   listeners, lateWatchers>>

(***************************************************************************)
(* Inputs                                                                  *)
(***************************************************************************)
\* Sequences of distinct records of Pool, up to n long.
RECURSIVE DistinctSeqs(_)
DistinctSeqs(n) ==
    IF n = 0
    THEN { <<>> }
    ELSE LET shorter == DistinctSeqs(n - 1)
         IN  shorter \union
             UNION { { Append(b, r) : r \in Pool \ { b[i] : i \in 1..Len(b) } } :
                       b \in { x \in shorter : Len(x) = n - 1 } }

Batches == DistinctSeqs(MaxLen)

\* The configuration the life cycle is explored with: no action of the
\* manager reads it.
LifeConfigs == { Config("**/*.txt", FALSE, FALSE, FALSE) }

\* The batch the event streams are explored with: it fires a delete, a
\* create and a rename.
LifeBatches ==
    { <<Rec("a.txt", "f", FALSE, FALSE, 1, 1), Rec("c.txt", "f", TRUE, TRUE, 1, 1)>> }

(***************************************************************************)
(* Spec: the life cycle of clients, watchers and subscriptions             *)
(***************************************************************************)
Init ==
    /\ watchmanPath \in {"null", "watchman"}
    /\ channel = "undefined"
    /\ folders \in SUBSET Roots
    /\ folderListener = FALSE
    /\ creatingRoots = {}
    /\ clientsMap = [r \in Roots |-> NoEntry]
    /\ managerDisposed = FALSE
    /\ clientState = [c \in ClientIds |-> "unused"]
    /\ waiter = NoWaiter
    /\ watcherCfg = [w \in WatcherIds |-> NotCreated]
    /\ watcherDisposed = [w \in WatcherIds |-> FALSE]
    /\ watchers = {}
    /\ subs = [p \in WatcherIds \X ClientIds |-> "none"]
    /\ listeners = [w \in WatcherIds |-> {}]
    /\ delivery = NoDelivery
    /\ coalesced = {}
    /\ readyFired = {}
    /\ lateResolved = {}
    /\ lateWatchers = {}

Next ==
    \/ Attach
    \/ \E added, removed \in SUBSET Roots : ChangeWorkspaceFolders(added, removed)
    \/ \E c \in ClientIds : RejectCreate(c)
    \/ \E c \in ClientIds : ResolveCreateNull(c)
    \/ \E c \in ClientIds : ResolveCreate(c)
    \/ \E w \in WatcherIds, cfg \in LifeConfigs : CreateFileSystemWatcher(w, cfg)
    \/ DisposeManager
    \/ \E w \in WatcherIds, c \in ClientIds : ResolveSubscribe(w, c)
    \/ \E w \in WatcherIds, c \in ClientIds : RejectSubscribe(w, c)
    \/ \E w \in WatcherIds : DisposeWatcher(w)

Spec == Init /\ [][Next]_vars

(***************************************************************************)
(* WaitSpec: the manager and a caller of waitClient.  The watching service *)
(* answers every createClient request: weak fairness on the three          *)
(* continuations of the await of line 68.                                  *)
(***************************************************************************)
Answer ==
    \E c \in ClientIds : RejectCreate(c) \/ ResolveCreateNull(c) \/ ResolveCreate(c)

WaitNext ==
    \/ Attach
    \/ \E added, removed \in SUBSET Roots : ChangeWorkspaceFolders(added, removed)
    \/ \E root \in Roots : WaitClient(root)
    \/ \E c \in ClientIds : RejectCreate(c)
    \/ \E c \in ClientIds : ResolveCreateNull(c)
    \/ \E c \in ClientIds : ResolveCreate(c)
    \/ DisposeManager

WaitSpec == Init /\ [][WaitNext]_vars /\ WF_vars(Answer)

(***************************************************************************)
(* EventSpec: the event streams of the watchers of one workspace folder    *)
(***************************************************************************)
EventInit ==
    /\ Init
    /\ watchmanPath = "watchman"
    /\ folders = {"r1"}

EventNext ==
    \/ Attach
    \/ \E c \in ClientIds : ResolveCreate(c)
    \/ \E w \in WatcherIds, cfg \in LifeConfigs : CreateFileSystemWatcher(w, cfg)
    \/ \E w \in WatcherIds, c \in ClientIds : ResolveSubscribe(w, c)
    \/ \E w \in WatcherIds : DisposeWatcher(w)
    \/ \E w \in WatcherIds : AddListeners(w)
    \/ \E w \in WatcherIds, c \in ClientIds, files \in LifeBatches : Deliver(w, c, files)

EventSpec == EventInit /\ [][EventNext]_vars

(***************************************************************************)
(* BatchSpec: one run of onChange on every batch, for every configuration  *)
(***************************************************************************)
\* A watcher of any configuration, listened to by consumers and subscribed
\* on the client of root r1.
BatchInit ==
    /\ watchmanPath = "watchman"
    /\ channel = "channel"
    /\ folders = {"r1"}
    /\ folderListener = TRUE
    /\ creatingRoots = {}
    /\ clientsMap = [r \in Roots |-> IF r = "r1" THEN <<"r1", 1>> ELSE NoEntry]
    /\ managerDisposed = FALSE
    /\ clientState = [c \in ClientIds |-> IF c = <<"r1", 1>> THEN "live" ELSE "unused"]
    /\ waiter = NoWaiter
    /\ watcherCfg \in [WatcherIds -> AllConfigs \union {NotCreated}]
    /\ watcherCfg["w1"] # NotCreated
    /\ watcherCfg["w2"] = NotCreated
    /\ watcherDisposed = [w \in WatcherIds |-> FALSE]
    /\ watchers = {"w1"}
    /\ subs = [p \in WatcherIds \X ClientIds |->
                 IF p = <<"w1", <<"r1", 1>>>> THEN "held" ELSE "none"]
    /\ listeners = [w \in WatcherIds |-> IF w = "w1" THEN Streams \X {"before"} ELSE {}]
    /\ delivery = NoDelivery
    /\ coalesced = {}
    /\ readyFired = {"r1"}
    /\ lateResolved = {}
    /\ lateWatchers = {}

BatchNext ==
    /\ delivery = NoDelivery
    /\ \E files \in Batches : Deliver("w1", <<"r1", 1>>, files)

BatchSpec == BatchInit /\ [][BatchNext]_vars

(***************************************************************************)
(* Claims                                                                  *)
(***************************************************************************)
\* The events of the last onChange run that reached a callback registered
\* before the watcher was disposed.
HeardByEarly ==
    { i \in 1..Len(delivery.fired) : <<delivery.fired[i].kind, "before">> \in delivery.heard }

\* C1: once a watcher is disposed it is out of the watcher registry, and a
\* batch handed to one of its onChange callbacks reaches no callback that was
\* registered on any of its four event streams before the disposal.
C1_DisposedWatcherIsSilent ==
    /\ \A w \in WatcherIds : watcherDisposed[w] => w \notin watchers
    /\ delivery.disposed => HeardByEarly = {}

\* The clients of a root that createClient stored in clientsMap at line 74.
StoredEver(root) ==
    { c \in ClientIds : /\ c[1] = root
                        /\ clientState[c] \in {"live", "disposed"}
                        /\ c \notin lateResolved }

\* C2: createClient calls for a root coalesce.  In every state at most one
\* creation is in flight for the root, none is in flight while the root has
\* an entry, the client a creation stored is the entry of its root, and
\* Watchman.createClient was called at most once for the root of a manager
\* that is not disposed; and no step taken while a creation is in flight or
\* the root has an entry calls Watchman.createClient for the root.
C2_CreationCoalesced ==
    /\ [](\A r \in Roots :
            /\ Cardinality(InFlight(r)) <= 1
            /\ InFlight(r) # {} => ~HasEntry(r)
            /\ \A c \in StoredEver(r) : clientsMap[r] = c
            /\ ~managerDisposed => Cardinality(CreateCalls(r)) <= 1
            /\ r \in coalesced => CreateCalls(r) # {})
    /\ [][\A r \in Roots :
            (InFlight(r) # {} \/ HasEntry(r)) => CreateCalls(r)' = CreateCalls(r)]_vars

\* C2 witness: a second createClient call for a root returned at line 65
\* while the first creation was in flight.
C2_Witness == \E r \in Roots : r \in coalesced /\ InFlight(r) # {}

\* The creation of a client for root resolved with a client.
Succeeded(root) ==
    \E c \in ClientIds : c[1] = root /\ clientState[c] \in {"live", "disposed"}

\* The creation of a client for root threw.
Failed(root) == \E c \in ClientIds : c[1] = root /\ clientState[c] = "failed"

\* What holds of waitClient(root) in every state: a resolved promise means
\* the root has an entry; it was resolved at the call or by the signal of
\* its own root; while it waits the root has no entry; after a failed
\* creation it stays unresolved.
WaitSafety ==
    waiter # NoWaiter =>
        /\ waiter.state = "resolved" => HasEntry(waiter.root)
        /\ waiter.state = "resolved" => waiter.how \in {"entry", waiter.root}
        /\ (waiter.state = "pending" /\ waiter.listening) => ~HasEntry(waiter.root)
        /\ Failed(waiter.root) => waiter.state = "pending"

\* C3 as claimed: in addition, waitClient(root) is resolved for every root
\* whose creation succeeded (the promise is resolved in the step that stores
\* the client, or at the call when the entry exists).
C3_ResolvesOnSuccess ==
    /\ WaitSafety
    /\ (waiter # NoWaiter /\ Succeeded(waiter.root)) => waiter.state = "resolved"

\* C3 amended: waitClient(root) is resolved for every root whose creation
\* succeeded while the manager was not disposed; and a waiter that waits
\* while a creation for its root is in flight is eventually resolved unless
\* the creation fails or the manager is disposed.
C3_ResolvesWhenStored ==
    /\ [](WaitSafety /\ ((waiter # NoWaiter /\ StoredEver(waiter.root) # {})
                            => waiter.state = "resolved"))
    /\ \A r \in Roots :
          (waiter.root = r /\ waiter.state = "pending" /\ InFlight(r) # {})
             ~> (waiter.state = "resolved" \/ Failed(r) \/ managerDisposed)

\* C3 witness: a waiting promise was resolved by the signal of its root.
C3_Witness ==
    /\ waiter.state = "resolved"
    /\ waiter.how = waiter.root
    /\ clientsMap[waiter.root] \in ClientIds

\* C4: a client whose creation resolved after the manager was disposed is
\* disposed, is not stored in clientsMap, is listened to by no watcher, and
\* no created signal was fired for its root.
C4_LateClientDiscarded ==
    \A c \in lateResolved :
        /\ clientState[c] = "disposed"
        /\ clientsMap[c[1]] # c
        /\ \A w \in WatcherIds : subs[<<w, c>>] = "none"
        /\ c[1] \notin readyFired

\* C4 witness: a creation resolved after disposal while a watcher was
\* registered.
C4_Witness == lateResolved # {} /\ watchers # {}

\* C5: every registered watcher has called subscribe on every client stored
\* in clientsMap.
C5_AttachmentReconciled ==
    \A w \in watchers : \A c \in StoredClients : subs[<<w, c>>] # "none"

\* C5 witness: one registered watcher was created after a client was stored,
\* another before any was, and both have subscribed on a stored client.
C5_Witness ==
    \E w1 \in watchers \cap lateWatchers, w2 \in watchers \ lateWatchers, c \in StoredClients :
        subs[<<w1, c>>] # "none" /\ subs[<<w2, c>>] # "none"

(***************************************************************************)
(* Claims about one run of onChange                                        *)
(***************************************************************************)
LastCfg == watcherCfg[delivery.watcher]
LastRoot == delivery.client[1]

\* A record is a file whose name matches the glob of the watcher.
Qualifies(f) == f.type = "f" /\ minimatch(f.name, LastCfg.globPattern)

\* The qualifying records of the last batch, in order.
Kept == SelectSeq(delivery.files, Qualifies)
Vanished == SelectSeq(Kept, LAMBDA f : ~f.exists)
Appeared == SelectSeq(Kept, LAMBDA f : f.exists)

IsRename(e) == e.kind = "rename"
RenameSeq(events) == SelectSeq(events, IsRename)
RenamePairs(events) ==
    { <<events[i].uri, events[i].newUri>> : i \in { k \in 1..Len(events) : IsRename(events[k]) } }
\* The pairs fired by the loop of lines 170-178.
FolderRenamePairs(events) ==
    { <<events[i].uri, events[i].newUri>> :
        i \in { k \in 1..Len(events) : IsRename(events[k]) /\ events[k].site = 173 } }

Fired(kind, uri, newUri) ==
    \E i \in 1..Len(delivery.fired) :
        /\ delivery.fired[i].kind = kind
        /\ delivery.fired[i].uri = uri
        /\ delivery.fired[i].newUri = newUri

\* C6: a record that is no file, or whose name does not match the glob, is
\* named by no fired event, and the events fired for the batch are those
\* fired for the batch without such records.
C6_DroppedRecordsIgnored ==
    delivery # NoDelivery =>
        /\ \A k \in 1..Len(delivery.files) :
              ~Qualifies(delivery.files[k]) =>
                  \A i \in 1..Len(delivery.fired) :
                      /\ delivery.fired[i].uri # UriFile(LastRoot, delivery.files[k].name)
                      /\ delivery.fired[i].newUri # UriFile(LastRoot, delivery.files[k].name)
        /\ delivery.fired = onChange(Kept, LastRoot, LastCfg)

\* C6 witness: a batch with a dropped record among two qualifying records
\* that fired a rename.
C6_Witness ==
    /\ delivery # NoDelivery
    /\ Len(delivery.files) = 3
    /\ Len(Kept) = 2
    /\ ~Qualifies(delivery.files[2])
    /\ RenamePairs(delivery.fired) # {}

\* C7: a watcher fires no event on a stream whose ignore flag is set, and
\* the rename events of a batch are those fired under every other
\* combination of the three flags.
C7_IgnoreFlags ==
    delivery # NoDelivery =>
        /\ LastCfg.ignoreDeleteEvents => ~\E i \in 1..Len(delivery.fired) :
                                              delivery.fired[i].kind = "delete"
        /\ LastCfg.ignoreCreateEvents => ~\E i \in 1..Len(delivery.fired) :
                                              delivery.fired[i].kind = "create"
        /\ LastCfg.ignoreChangeEvents => ~\E i \in 1..Len(delivery.fired) :
                                              delivery.fired[i].kind = "change"
        /\ \A cfg \in AllConfigs :
              cfg.globPattern = LastCfg.globPattern =>
                  RenameSeq(onChange(delivery.files, LastRoot, cfg)) = RenameSeq(delivery.fired)

\* C7 witness: a watcher ignoring deletes got a vanished file and fired a
\* rename for it.
C7_Witness ==
    /\ delivery # NoDelivery
    /\ LastCfg.ignoreDeleteEvents
    /\ Len(Vanished) > 0
    /\ RenamePairs(delivery.fired) # {}

\* The last batch is, after filtering, an absent record followed by a new
\* present record of the same size, handled by a watcher without ignore flags.
PairwiseCase ==
    /\ delivery # NoDelivery
    /\ ~LastCfg.ignoreCreateEvents /\ ~LastCfg.ignoreChangeEvents /\ ~LastCfg.ignoreDeleteEvents
    /\ Len(Kept) = 2
    /\ ~Kept[1].exists
    /\ Kept[2].exists /\ Kept[2].new
    /\ Kept[1].size = Kept[2].size

\* C8: in the pairwise case a delete of the first record, a create of the
\* second and a rename from the first to the second are fired.
C8_PairwiseRename ==
    PairwiseCase =>
        /\ Fired("delete", UriFile(LastRoot, Kept[1].name), NoUri)
        /\ Fired("create", UriFile(LastRoot, Kept[2].name), NoUri)
        /\ Fired("rename", UriFile(LastRoot, Kept[1].name), UriFile(LastRoot, Kept[2].name))

\* C8 witness: the pairwise case with records of different mtime_ms.
C8_Witness ==
    /\ PairwiseCase
    /\ Kept[1].mtime_ms # Kept[2].mtime_ms
    /\ Len(delivery.fired) = 3

\* C9: every rename fired leads from a qualifying absent record to a
\* qualifying present record of the same batch and the same size, in a batch
\* with as many absent as present qualifying records; hence two records of
\* different sizes, or unequal counts, fire no rename.
C9_RenameNecessary ==
    delivery # NoDelivery =>
        /\ \A i \in 1..Len(delivery.fired) :
              IsRename(delivery.fired[i]) =>
                  /\ Len(Vanished) = Len(Appeared)
                  /\ \E o \in 1..Len(Vanished), n \in 1..Len(Appeared) :
                        /\ delivery.fired[i].uri = UriFile(LastRoot, Vanished[o].name)
                        /\ delivery.fired[i].newUri = UriFile(LastRoot, Appeared[n].name)
                        /\ Vanished[o].size = Appeared[n].size
        /\ (Len(Kept) = 2 /\ Kept[1].size # Kept[2].size) => RenamePairs(delivery.fired) = {}
        /\ Len(Vanished) # Len(Appeared) => RenamePairs(delivery.fired) = {}

\* C9 witness: two absent records and one present record of the same
\* fingerprint, and only the per-record events fired.
C9_Witness ==
    /\ delivery # NoDelivery
    /\ Len(Vanished) = 2 /\ Len(Appeared) = 1
    /\ \A o \in 1..2 : SameFile(Appeared[1], Vanished[o])
    /\ RenamePairs(delivery.fired) = {}
    /\ Len(delivery.fired) = 3

\* The last batch has as many absent as present qualifying records, and the
\* present ones have pairwise distinct (size, mtime_ms).
BatchCase ==
    /\ delivery # NoDelivery
    /\ Len(Vanished) = Len(Appeared)
    /\ \A i, j \in 1..Len(Appeared) :
          (Appeared[i].size = Appeared[j].size /\ Appeared[i].mtime_ms = Appeared[j].mtime_ms)
              => i = j

\* The batch in the order given by the permutation p of its indices.
Reordered(files, p) == [i \in 1..Len(files) |-> files[p[i]]]

\* Each absent record paired with the present record of its fingerprint.
FingerprintPairs ==
    { <<UriFile(LastRoot, Vanished[o].name), UriFile(LastRoot, Appeared[n].name)>> :
        <<o, n>> \in { q \in (1..Len(Vanished)) \X (1..Len(Appeared)) :
                         /\ Vanished[q[1]].size = Appeared[q[2]].size
                         /\ Vanished[q[1]].mtime_ms = Appeared[q[2]].mtime_ms } }

\* C10 as claimed: in the batch case the rename pairs fired are the same for
\* every order of the records and are the fingerprint pairs.
C10_RenamesOrderFree ==
    BatchCase =>
        /\ RenamePairs(delivery.fired) = FingerprintPairs
        /\ \A p \in Permutations(1..Len(delivery.files)) :
              RenamePairs(onChange(Reordered(delivery.files, p), LastRoot, LastCfg))
                  = RenamePairs(delivery.fired)

\* C10 amended: in the batch case the rename pairs fired by the loop of
\* lines 170-178 are the same for every order of the records and are the
\* fingerprint pairs.
C10_FolderRenamesOrderFree ==
    BatchCase =>
        /\ FolderRenamePairs(delivery.fired) = FingerprintPairs
        /\ \A p \in Permutations(1..Len(delivery.files)) :
              FolderRenamePairs(onChange(Reordered(delivery.files, p), LastRoot, LastCfg))
                  = FolderRenamePairs(delivery.fired)

\* C10 witness: two absent and two present records, given so that no absent
\* record is at the position of its match, fired both renames.
C10_Witness ==
    /\ BatchCase
    /\ Len(Vanished) = 2
    /\ Cardinality(FolderRenamePairs(delivery.fired)) = 2
    /\ ~SameFile(Appeared[1], Vanished[1])

\* The renames fired by the loop of lines 170-178, in order.
FolderRenameSeq(events) == SelectSeq(events, LAMBDA e : IsRename(e) /\ e.site = 173)

\* C11: the loop of lines 170-178 fires no two renames to the same new
\* location, whatever fingerprints the absent records share.
C11_BatchRenameOneToOne ==
    delivery # NoDelivery =>
        LET renames == FolderRenameSeq(delivery.fired)
        IN  \A i, j \in 1..Len(renames) : renames[i].newUri = renames[j].newUri => i = j

\* The last batch is, after filtering, an absent record followed by a
\* present record of the same size.
TwoRecordCase ==
    /\ delivery # NoDelivery
    /\ Len(Kept) = 2
    /\ ~Kept[1].exists
    /\ Kept[2].exists
    /\ Kept[1].size = Kept[2].size

\* How many times rename(uri -> newUri) was fired for the last batch.
RenameCount(uri, newUri) ==
    Cardinality({ i \in 1..Len(delivery.fired) :
                    /\ IsRename(delivery.fired[i])
                    /\ delivery.fired[i].uri = uri
                    /\ delivery.fired[i].newUri = newUri })

\* C12: for an absent record followed by a present record of the same size,
\* rename(first -> second) is fired twice when the two have the same
\* mtime_ms and exactly once when they have not.
C12_BothStepsRun ==
    TwoRecordCase =>
        RenameCount(UriFile(LastRoot, Kept[1].name), UriFile(LastRoot, Kept[2].name))
            = IF Kept[1].mtime_ms = Kept[2].mtime_ms THEN 2 ELSE 1

\* C12 witness: the two records have the same size and mtime_ms and the
\* rename was fired twice.
C12_Witness ==
    /\ TwoRecordCase
    /\ Kept[1].mtime_ms = Kept[2].mtime_ms
    /\ RenameCount(UriFile(LastRoot, Kept[1].name), UriFile(LastRoot, Kept[2].name)) = 2

\* The kind of event a record calls for, and whether the watcher ignores it.
KindOf(f) == IF ~f.exists THEN "delete" ELSE IF f.new = TRUE THEN "create" ELSE "change"
Ignores(cfg, kind) ==
    \/ kind = "delete" /\ cfg.ignoreDeleteEvents
    \/ kind = "create" /\ cfg.ignoreCreateEvents
    \/ kind = "change" /\ cfg.ignoreChangeEvents

\* The events of the last batch other than renames that carry the location
\* of the record of the given name.
RecordEvents(name) ==
    { i \in 1..Len(delivery.fired) :
        /\ ~IsRename(delivery.fired[i])
        /\ delivery.fired[i].uri = UriFile(LastRoot, name) }

\* C13: for each qualifying record no event other than a rename is fired
\* when the flag of its kind is set, and otherwise exactly one, of its kind
\* (delete when absent, create when present and new, change when present and
\* not new); and every such event is fired for a qualifying record.
C13_OneKindPerRecord ==
    delivery # NoDelivery =>
        /\ \A k \in 1..Len(Kept) :
              IF Ignores(LastCfg, KindOf(Kept[k]))
              THEN RecordEvents(Kept[k].name) = {}
              ELSE /\ Cardinality(RecordEvents(Kept[k].name)) = 1
                   /\ \A i \in RecordEvents(Kept[k].name) :
                         /\ delivery.fired[i].kind = KindOf(Kept[k])
                         /\ delivery.fired[i].newUri = NoUri
        /\ \A i \in 1..Len(delivery.fired) :
              ~IsRename(delivery.fired[i]) =>
                  \E k \in 1..Len(Kept) : i \in RecordEvents(Kept[k].name)

\* C13 witness: a batch with an absent, a new and a changed qualifying
\* record, handled by a watcher that ignores changes only, fired a delete
\* and a create.
C13_Witness ==
    /\ delivery # NoDelivery
    /\ LastCfg.ignoreChangeEvents /\ ~LastCfg.ignoreCreateEvents /\ ~LastCfg.ignoreDeleteEvents
    /\ { KindOf(Kept[k]) : k \in 1..Len(Kept) } = {"delete", "create", "change"}
    /\ { delivery.fired[i].kind : i \in 1..Len(delivery.fired) } = {"delete", "create"}

\* The events of the last batch fired by the loop of lines 143-154, in order.
PerRecordSeq == SelectSeq(delivery.fired, LAMBDA e : ~IsRename(e))

\* The events name records of the given sequence, in the order of the
\* sequence.
InOrderOf(events, records) ==
    /\ \A i \in 1..Len(events) :
          \E a \in 1..Len(records) : events[i].uri = UriFile(LastRoot, records[a].name)
    /\ \A i, j \in 1..Len(events) :
          i < j => \E a, b \in 1..Len(records) :
                      /\ a < b
                      /\ events[i].uri = UriFile(LastRoot, records[a].name)
                      /\ events[j].uri = UriFile(LastRoot, records[b].name)

C14_FailureClearsMark ==
    [][\A c \in ClientIds :
          (clientState[c] = "creating" /\ clientState'[c] = "failed") =>
              /\ c[1] \notin creatingRoots'
              /\ clientsMap' = clientsMap
              /\ clientsMap[c[1]] # c
              /\ \A w \in WatcherIds : subs'[<<w, c>>] = "none"
              /\ readyFired' = readyFired]_vars

\* C15: while the manager is not disposed no disposed client is stored in
\* clientsMap, and the step that creates a watcher subscribes it on no
\* client that a removed folder had disposed.
C15_OnlyLiveConnections ==
    [][/\ ~managerDisposed' =>
              \A r \in Roots :
                  clientsMap'[r] \in ClientIds => clientState'[clientsMap'[r]] # "disposed"
       /\ \A w \in WatcherIds :
              (watcherCfg[w] = NotCreated /\ watcherCfg'[w] # NotCreated /\ ~managerDisposed) =>
                  \A c \in ClientIds :
                      clientState[c] = "disposed" => subs'[<<w, c>>] = "none"]_vars

\* C19: whenever no createClient call is in flight, every live client
\* stored in clientsMap is the client of a current workspace folder.
C19_NoConnectionForRemovedRoot ==
    (\A r \in Roots : InFlight(r) = {}) =>
        \A c \in StoredClients : clientState[c] = "live" => c[1] \in folders

\* C16: a disposed watcher holds no subscription: one whose subscribe call
\* resolves after the disposal is disposed at once, so that when no
\* subscribe call of the watcher is pending every subscription made for it
\* has been disposed.
C16_LateSubscriptionDisposed ==
    \A w \in WatcherIds :
        watcherDisposed[w] =>
            /\ \A c \in ClientIds : subs[<<w, c>>] # "held"
            /\ (\A c \in ClientIds : subs[<<w, c>>] # "pending") =>
                   \A c \in ClientIds : subs[<<w, c>>] \in {"none", "failed", "disposed", "dropped"}

\* C16 witness: a subscribe call of a watcher resolved after the watcher was
\* disposed, and none of its calls is pending.
C16_Witness ==
    \E w \in WatcherIds :
        /\ watcherDisposed[w]
        /\ \E c \in ClientIds : subs[<<w, c>>] = "dropped"
        /\ \A c \in ClientIds : subs[<<w, c>>] # "pending"

\* C18: the step that disposes a watcher changes no subscription, callback,
\* disposal flag or registration of any other watcher, and leaves
\* clientsMap, creatingRoots and every client as they were; the other
\* watchers hence fire as before.
C18_DisposeIsLocal ==
    [][\A w \in WatcherIds :
          (~watcherDisposed[w] /\ watcherDisposed'[w]) =>
              /\ \A w2 \in WatcherIds \ {w} :
                    /\ \A c \in ClientIds : subs'[<<w2, c>>] = subs[<<w2, c>>]
                    /\ listeners'[w2] = listeners[w2]
                    /\ watcherDisposed'[w2] = watcherDisposed[w2]
                    /\ (w2 \in watchers') = (w2 \in watchers)
              /\ clientsMap' = clientsMap
              /\ creatingRoots' = creatingRoots
              /\ clientState' = clientState]_vars

\* C18 witness: of two watchers that held a subscription on the same client
\* one is disposed, the other still holds its subscription, is registered
\* and got a batch its callbacks heard.
C18_Witness ==
    \E w \in WatcherIds, w2 \in WatcherIds, c \in ClientIds :
        /\ watcherDisposed[w] /\ subs[<<w, c>>] = "disposed"
        /\ ~watcherDisposed[w2] /\ subs[<<w2, c>>] = "held" /\ w2 \in watchers
        /\ delivery.watcher = w2 /\ delivery.client = c
        /\ delivery.fired # <<>> /\ delivery.heard # {}

\* The client stored for the root was disposed when its folder was removed.
StaleEntry(r) ==
    /\ ~managerDisposed
    /\ clientsMap[r] \in ClientIds
    /\ clientState[clientsMap[r]] = "disposed"

\* C20: the step that adds again a folder whose client was disposed on its
\* removal requests a new client for it, and a waitClient call made for the
\* folder once it is added again is not resolved on the strength of the
\* disposed client.
C20_ReaddedRootReconnects ==
    [][\A r \in Roots :
          /\ (folderListener /\ watchmanPath # "null" /\ StaleEntry(r)
                 /\ r \notin folders /\ r \in folders') =>
                 CreateCalls(r)' # CreateCalls(r)
          /\ (StaleEntry(r) /\ r \in folders /\ waiter = NoWaiter /\ waiter'.root = r) =>
                 waiter'.state # "resolved"]_vars

=============================================================================
